---- MODULE Spec2Model ----
(***************************************************************************)
(* A model of the NEAT engine of neat-rs: the genome (node genes,          *)
(* connection genes, topological order, reachability, structural           *)
(* mutations), crossover, and the generational loop of the driver.         *)
(*                                                                         *)
(* Node indices are the code's 0-based usize indices; TLA+ sequences are   *)
(* 1-based, so node index k is node_genes[k + 1] and connection index k is *)
(* connection_genes[k + 1].                                                *)
(***************************************************************************)
EXTENDS Integers, Sequences, FiniteSets, TLC

(***************************************************************************)
(* Bounds of the model.                                                    *)
(***************************************************************************)
MaxSize == 6      \* node genes plus connection genes of a genome

\* The (inputs, outputs) pairs the genomes are constructed with.
Shapes == {<<1, 1>>, <<2, 1>>, <<1, 2>>}
MaxPopulation == 3    \* largest configured population_size
MaxGenerations == 2   \* largest configured max_generations

VARIABLES
    g,        \* the genome under mutation (a Genome value)
    other,    \* a second genome: a clone of g taken earlier, or a fresh one
    res,      \* outcome of the last add_node / add_connection / disable_connection
    ord,      \* outcome of the last node_order_with call
    child,    \* outcome of the last crossover call
    neat,     \* the driver: NEAT, its GenomeBank and the locals of NEAT::start
    genome_bank,  \* a GenomeBank used on its own
    call      \* the last call made on genome_bank and its outcome

vars == <<g, other, res, ord, child, neat, genome_bank, call>>

(***************************************************************************)
(* Genes.                                                                  *)
(***************************************************************************)
NodeKind == {"Input", "Output", "Hidden"}

\* ConnectionGene::new(from, to): an enabled gene.
ConnectionGeneNew(from, to) == [from |-> from, to |-> to, disabled |-> FALSE]

\* ConnectionGene::innovation_number: one number per ordered pair (from, to).
InnovationNumber(c) == ((c.from + c.to) * (c.from + c.to + 1)) \div 2 + c.to

\* n copies of x
Repeat(x, n) == [k \in 1..n |-> x]

RECURSIVE FlatMap(_, _, _)
\* (0..inputs).flat_map(|i| (inputs..inputs+outputs).map(|o| new(i, o)))
FlatMap(i, inputs, outputs) ==
    IF i >= inputs THEN <<>>
    ELSE [k \in 1..outputs |-> ConnectionGeneNew(i, inputs + k - 1)]
         \o FlatMap(i + 1, inputs, outputs)

\* Genome::new with every connection gene turned round (output -> input).
GenomeNewReversed(inputs, outputs) ==
    [inputs |-> inputs,
     outputs |-> outputs,
     connection_genes |->
         [k \in 1..(inputs * outputs) |->
             ConnectionGeneNew(FlatMap(0, inputs, outputs)[k].to,
                               FlatMap(0, inputs, outputs)[k].from)],
     node_genes |-> Repeat("Input", inputs) \o Repeat("Output", outputs)]

\* Genome::new
GenomeNew(inputs, outputs) ==
    [inputs |-> inputs,
     outputs |-> outputs,
     connection_genes |-> FlatMap(0, inputs, outputs),
     node_genes |-> Repeat("Input", inputs) \o Repeat("Output", outputs)]

\* Genome::empty followed by the pushes of the unit tests' fixtures:
\* inputs, then hidden nodes, then outputs, and no connection yet.
GenomeFixture(inputs, hidden, outputs) ==
    [inputs |-> inputs,
     outputs |-> outputs,
     connection_genes |-> <<>>,
     node_genes |-> Repeat("Input", inputs) \o Repeat("Hidden", hidden)
                    \o Repeat("Output", outputs)]

NodeCount(gn) == Len(gn.node_genes)
NodeIdx(gn) == 0..(NodeCount(gn) - 1)
Kind(gn, i) == gn.node_genes[i + 1]

(***************************************************************************)
(* Sequence helpers.                                                       *)
(***************************************************************************)
RECURSIVE Filter(_, _)
\* keep the enabled genes, in order: .iter().filter(|c| !c.disabled)
Filter(s, k) ==
    IF k > Len(s) THEN <<>>
    ELSE (IF s[k].disabled THEN <<>> ELSE <<s[k]>>) \o Filter(s, k + 1)

EnabledConnections(gn) == Filter(gn.connection_genes, 1)

Range(s) == {s[k] : k \in 1..Len(s)}

RECURSIVE SetToAscSeq(_)
\* the elements of a set of naturals as an ascending sequence
SetToAscSeq(S) ==
    IF S = {} THEN <<>>
    ELSE LET m == CHOOSE x \in S : \A y \in S : x <= y
         IN <<m>> \o SetToAscSeq(S \ {m})

(***************************************************************************)
(* Genome::get_node_order                                                  *)
(***************************************************************************)
None == [some |-> FALSE, order |-> <<>>]
Some(v) == [some |-> TRUE, order |-> v]

\* NodesToVisit with `any` in place of `all`: one visited predecessor is enough.
NodesToVisitAny(gn, connections, visited) ==
    SetToAscSeq({i \in NodeIdx(gn) :
        /\ i \notin Range(visited)
        /\ \/ \A k \in 1..Len(connections) : connections[k].to # i
           \/ \E k \in 1..Len(connections) :
                 connections[k].to = i /\ connections[k].from \in Range(visited)})

\* One pass of the while loop: the unvisited nodes all of whose
\* predecessors (by the edge list) are visited, in index order.
NodesToVisit(gn, connections, visited) ==
    SetToAscSeq({i \in NodeIdx(gn) :
        /\ i \notin Range(visited)
        /\ \A k \in 1..Len(connections) :
              connections[k].to = i => connections[k].from \in Range(visited)})

RECURSIVE VisitLoop(_, _, _)
VisitLoop(gn, connections, visited) ==
    LET nodes_to_visit == NodesToVisit(gn, connections, visited)
    IN IF Len(nodes_to_visit) = 0 THEN visited
       ELSE VisitLoop(gn, connections, visited \o nodes_to_visit)

GetNodeOrder(gn, additional_connections) ==
    LET connections == EnabledConnections(gn) \o additional_connections
        inputs_seq == SetToAscSeq({i \in NodeIdx(gn) : Kind(gn, i) = "Input"})
        visited == VisitLoop(gn, connections, inputs_seq)
    IN IF Len(visited) # NodeCount(gn) THEN None ELSE Some(visited)

NodeOrder(gn) == GetNodeOrder(gn, <<>>)
NodeOrderWith(gn, additional_connections) == GetNodeOrder(gn, additional_connections)

(***************************************************************************)
(* Genome::is_projecting_directly / is_projecting                          *)
(***************************************************************************)
IsProjectingDirectly(gn, source, target) ==
    \E k \in 1..Len(gn.connection_genes) :
        LET c == gn.connection_genes[k]
        IN ~c.disabled /\ c.from = source /\ c.to = target

\* The successors the loop body pushes for node i: the filter tests
\* visited_nodes.contains(&i), and i has just been inserted.
RECURSIVE Successors(_, _, _, _)
Successors(gn, i, visited_nodes, k) ==
    IF k > Len(gn.connection_genes) THEN <<>>
    ELSE LET c == gn.connection_genes[k]
         IN (IF c.from = i /\ ~c.disabled /\ i \notin visited_nodes
             THEN <<c.to>> ELSE <<>>)
            \o Successors(gn, i, visited_nodes, k + 1)

RECURSIVE ProjectingLoop(_, _, _, _)
ProjectingLoop(gn, target, nodes_to_visit, visited_nodes) ==
    IF Len(nodes_to_visit) = 0 THEN FALSE
    ELSE LET i == Head(nodes_to_visit)
             visited == visited_nodes \cup {i}
         IN IF IsProjectingDirectly(gn, i, target) THEN TRUE
            ELSE ProjectingLoop(gn, target,
                     Tail(nodes_to_visit) \o Successors(gn, i, visited, 1),
                     visited)

IsProjecting(gn, source, target) == ProjectingLoop(gn, target, <<source>>, {})

(***************************************************************************)
(* Genome::can_connect / add_connection / disable_connection / add_node    *)
(***************************************************************************)
\* CanConnect without the topological order test.
CanConnectNoOrder(gn, from, to) ==
    LET is_from_output == Kind(gn, from) = "Output"
        is_to_input == Kind(gn, to) = "Input"
    IN IF is_from_output \/ is_to_input
       THEN FALSE
       ELSE ~IsProjecting(gn, from, to)

CanConnect(gn, from, to) ==
    LET is_from_output == Kind(gn, from) = "Output"
        is_to_input == Kind(gn, to) = "Input"
    IN IF \/ is_from_output
          \/ is_to_input
          \/ ~NodeOrderWith(gn, <<ConnectionGeneNew(from, to)>>).some
       THEN FALSE
       ELSE ~IsProjecting(gn, from, to)

\* position (1-based) of the first gene with these endpoints, 0 if none:
\* .iter_mut().find(|c| c.from == from && c.to == to)
FindConnection(gn, from, to) ==
    LET hits == {k \in 1..Len(gn.connection_genes) :
                    gn.connection_genes[k].from = from
                    /\ gn.connection_genes[k].to = to}
    IN IF hits = {} THEN 0 ELSE CHOOSE k \in hits : \A j \in hits : k <= j

\* Connected without the search for an existing gene: always a push.
ConnectedPush(gn, from, to) ==
    [gn EXCEPT !.connection_genes = Append(@, ConnectionGeneNew(from, to))]

\* The genome after a successful add_connection.
Connected(gn, from, to) ==
    LET k == FindConnection(gn, from, to)
    IN IF k # 0
       THEN [gn EXCEPT !.connection_genes[k].disabled = FALSE]
       ELSE [gn EXCEPT !.connection_genes = Append(@, ConnectionGeneNew(from, to))]

\* AddConnection with the gene pushed before the test.
AddConnectionPushFirst(gn, from, to) ==
    LET after == Connected(gn, from, to)
    IN IF ~CanConnect(gn, from, to)
       THEN [ok |-> FALSE, index |-> 0, genome |-> after]
       ELSE [ok |-> TRUE, index |-> Len(after.connection_genes) - 1, genome |-> after]

\* add_connection: [ok, index, genome]
AddConnection(gn, from, to) ==
    IF ~CanConnect(gn, from, to)
    THEN [ok |-> FALSE, index |-> 0, genome |-> gn]
    ELSE LET after == Connected(gn, from, to)
         IN [ok |-> TRUE, index |-> Len(after.connection_genes) - 1, genome |-> after]

DisableConnection(gn, index) ==
    [gn EXCEPT !.connection_genes[index + 1].disabled = TRUE]

AddNode(gn) ==
    [index |-> NodeCount(gn),
     genome |-> [gn EXCEPT !.node_genes = Append(@, "Hidden")]]

(***************************************************************************)
(* Genome::crossover.  The random draws are parameters: node_count is the  *)
(* drawn node count, out_from_a the output slots copied from parent a,     *)
(* gene_from_a the common innovation numbers copied from parent a.  Two    *)
(* hidden nodes of the parents differ only in attributes the model does    *)
(* not carry, so the draw between them needs no parameter.                 *)
(***************************************************************************)
FitnessesEqual(fitness_a, fitness_b) == fitness_a = fitness_b

\* The values the node count can take.
NodeCountChoices(a, fitness_a, b, fitness_b) ==
    IF FitnessesEqual(fitness_a, fitness_b)
    THEN LET la == NodeCount(a)
             lb == NodeCount(b)
             node_max == IF la >= lb THEN la ELSE lb
             node_min == IF la <= lb THEN la ELSE lb
         IN IF node_max - node_min = 0
            THEN {node_max}
            ELSE {node_min + r : r \in 0..(node_max - node_min - 1)}
    ELSE IF fitness_a > fitness_b THEN {NodeCount(a)} ELSE {NodeCount(b)}

\* The node pushed for interior position i, or "panic".
PickHidden(a, b, i) ==
    LET has_a == i < NodeCount(a)
        has_b == i < NodeCount(b)
    IN IF ~has_a /\ ~has_b THEN "panic"
       ELSE IF ~has_a THEN Kind(b, i)
       ELSE IF ~has_b THEN Kind(a, i)
       ELSE IF Kind(a, i) = "Hidden" THEN Kind(a, i)
       ELSE IF Kind(b, i) = "Hidden" THEN Kind(b, i)
       ELSE "panic"

\* .get(index).unwrap(): the node's kind, or "panic" when there is none.
GetUnwrap(gn, index) ==
    IF index \in NodeIdx(gn) THEN Kind(gn, index) ELSE "panic"

\* The node pushed for output slot i.
PickOutput(a, b, i, out_from_a) ==
    IF i \in out_from_a
    THEN GetUnwrap(a, NodeCount(a) - a.outputs + i)
    ELSE GetUnwrap(b, NodeCount(b) - b.outputs + i)

ChildNodes(a, b, node_count, out_from_a) ==
    [k \in 1..a.inputs |-> GetUnwrap(a, k - 1)]
    \o [k \in 1..(node_count - a.outputs - a.inputs) |-> PickHidden(a, b, a.inputs + k - 1)]
    \o [k \in 1..a.outputs |-> PickOutput(a, b, k - 1, out_from_a)]

Innovations(gn) == {InnovationNumber(gn.connection_genes[k]) : k \in 1..Len(gn.connection_genes)}

Occurrences(gn, num) ==
    Cardinality({k \in 1..Len(gn.connection_genes) :
                    InnovationNumber(gn.connection_genes[k]) = num})

\* is_gene_common[num]: the number seen a second time, in a or in b.
IsCommon(a, b, num) == Occurrences(a, num) + Occurrences(b, num) >= 2

\* .iter().find(|c| c.innovation_number() == num): the gene as a set of
\* at most one element.
FindGene(gn, num) ==
    LET hits == {k \in 1..Len(gn.connection_genes) :
                    InnovationNumber(gn.connection_genes[k]) = num}
    IN IF hits = {} THEN {}
       ELSE {gn.connection_genes[CHOOSE k \in hits : \A j \in hits : k <= j]}

\* PickGene with a gene of one parent only taken from a whenever a has it.
PickGeneFromA(a, fitness_a, b, fitness_b, num, gene_from_a) ==
    IF IsCommon(a, b, num)
    THEN IF num \in gene_from_a THEN FindGene(a, num) ELSE FindGene(b, num)
    ELSE IF FindGene(a, num) # {} THEN FindGene(a, num) ELSE FindGene(b, num)

\* The gene picked for innovation num, as a set of at most one element.
PickGene(a, fitness_a, b, fitness_b, num, gene_from_a) ==
    IF IsCommon(a, b, num)
    THEN IF num \in gene_from_a THEN FindGene(a, num) ELSE FindGene(b, num)
    ELSE IF fitness_a > fitness_b
         THEN (IF FindGene(a, num) # {} THEN FindGene(a, num) ELSE {})
         ELSE (IF FindGene(a, num) = {} THEN FindGene(b, num) ELSE {})

RECURSIVE SortGenes(_)
\* sort_by (from, then to)
SortGenes(S) ==
    IF S = {} THEN <<>>
    ELSE LET m == CHOOSE x \in S : \A y \in S :
                      \/ x.from < y.from
                      \/ (x.from = y.from /\ x.to <= y.to)
         IN <<m>> \o SortGenes(S \ {m})

ChildConnections(a, fitness_a, b, fitness_b, gene_from_a) ==
    SortGenes(UNION {PickGene(a, fitness_a, b, fitness_b, num, gene_from_a) :
                        num \in Innovations(a) \cup Innovations(b)})

\* The steps of crossover after the test of the input and output counts.
CrossoverBody(a, fitness_a, b, fitness_b, node_count, out_from_a, gene_from_a) ==
    LET nodes == ChildNodes(a, b, node_count, out_from_a)
    IN IF "panic" \in Range(nodes)
       THEN [status |-> "panic", why |-> "node", genome |-> GenomeFixture(0, 0, 0)]
       ELSE [status |-> "ok", why |-> "",
             genome |-> [inputs |-> a.inputs,
                         outputs |-> a.outputs,
                         connection_genes |->
                             ChildConnections(a, fitness_a, b, fitness_b, gene_from_a),
                         node_genes |-> nodes]]

\* Crossover with the test of the input counts only.
CrossoverInputsOnly(a, fitness_a, b, fitness_b, node_count, out_from_a, gene_from_a) ==
    IF a.inputs # b.inputs
    THEN [status |-> "panic", why |-> "inputs_outputs", genome |-> GenomeFixture(0, 0, 0)]
    ELSE CrossoverBody(a, fitness_a, b, fitness_b, node_count, out_from_a, gene_from_a)

\* crossover: [status, why, genome]
Crossover(a, fitness_a, b, fitness_b, node_count, out_from_a, gene_from_a) ==
    IF a.inputs # b.inputs \/ a.outputs # b.outputs
    THEN [status |-> "panic", why |-> "inputs_outputs", genome |-> GenomeFixture(0, 0, 0)]
    ELSE CrossoverBody(a, fitness_a, b, fitness_b, node_count, out_from_a, gene_from_a)

(***************************************************************************)
(* The genome state machine: one genome g built by Genome::new, or as a    *)
(* fixture of the unit tests, and changed by add_node, add_connection and  *)
(* disable_connection.                                                     *)
(***************************************************************************)
Size(gn) == NodeCount(gn) + Len(gn.connection_genes)

InitialGenomes ==
    {gn \in {GenomeNew(io[1], io[2]) : io \in Shapes}
            \cup {GenomeFixture(io[1], h, io[2]) : io \in Shapes, h \in 0..MaxSize} :
        Size(gn) <= MaxSize}

NoRes == [op |-> "none", from |-> 0, to |-> 0, ok |-> TRUE, index |-> 0]
NoOrd == [called |-> FALSE, extra |-> <<>>, result |-> None]
NoChild == [status |-> "none", why |-> "", genome |-> GenomeFixture(0, 0, 0),
            a_is_g |-> TRUE, fitness_a |-> 0, fitness_b |-> 0]

\* The driver before NEAT::new: not running.
NoNeat == [pc |-> "none"]
\* No GenomeBank made, no call made on it.
NoBank == [next_id |-> 0]
NoCall == [op |-> "none", status |-> "ok"]

Init ==
    /\ g \in InitialGenomes
    /\ other = g
    /\ res = NoRes
    /\ ord = NoOrd
    /\ child = NoChild
    /\ neat = NoNeat
    /\ genome_bank = NoBank
    /\ call = NoCall

DoAddNode ==
    /\ Size(g) < MaxSize
    /\ LET r == AddNode(g)
       IN /\ g' = r.genome
          /\ res' = [op |-> "add_node", from |-> 0, to |-> 0, ok |-> TRUE,
                     index |-> r.index]
    /\ ord' = NoOrd
    /\ UNCHANGED <<other, child, neat, genome_bank, call>>

DoAddConnection ==
    \E from \in NodeIdx(g), to \in NodeIdx(g) :
        /\ FindConnection(g, from, to) # 0 \/ Size(g) < MaxSize
        /\ LET r == AddConnection(g, from, to)
           IN /\ g' = r.genome
              /\ res' = [op |-> "add_connection", from |-> from, to |-> to,
                         ok |-> r.ok, index |-> r.index]
        /\ ord' = NoOrd
        /\ UNCHANGED <<other, child, neat, genome_bank, call>>

DoDisableConnection ==
    \E index \in 0..(Len(g.connection_genes) - 1) :
        /\ g' = DisableConnection(g, index)
        /\ res' = [op |-> "disable_connection", from |-> 0, to |-> 0, ok |-> TRUE,
                   index |-> index]
        /\ ord' = NoOrd
        /\ UNCHANGED <<other, child, neat, genome_bank, call>>

Next ==
    \/ DoAddNode
    \/ DoAddConnection
    \/ DoDisableConnection

Spec == Init /\ [][Next]_vars

(***************************************************************************)
(* Crossover of g with a second genome: a clone of g kept from an earlier  *)
(* moment, or a freshly constructed genome.  The genomes are mutated with  *)
(* no record of the outcome, and a run ends with the crossover call, whose *)
(* outcome stays in child.                                                 *)
(***************************************************************************)
\* The genomes one structural mutation of gn can give.
Mutations(gn) ==
    (IF Size(gn) < MaxSize THEN {AddNode(gn).genome} ELSE {})
    \cup {AddConnection(gn, ft[1], ft[2]).genome :
            ft \in {p \in NodeIdx(gn) \X NodeIdx(gn) :
                      FindConnection(gn, p[1], p[2]) # 0 \/ Size(gn) < MaxSize}}
    \cup {DisableConnection(gn, index) : index \in 0..(Len(gn.connection_genes) - 1)}

\* add_node, add_connection or disable_connection on g, outcome not kept.
DoMutate ==
    /\ child.status = "none"
    /\ ~ord.called
    /\ \E gn \in Mutations(g) : g' = gn
    /\ UNCHANGED <<other, res, ord, child, neat, genome_bank, call>>

\* Genome is Clone: keep a copy of g as the second genome.
DoClone ==
    /\ child.status = "none"
    /\ other' = g
    /\ UNCHANGED <<g, res, ord, child, neat, genome_bank, call>>

\* A freshly constructed second genome.
DoFresh ==
    /\ child.status = "none"
    /\ \E io \in Shapes : other' = GenomeNew(io[1], io[2])
    /\ UNCHANGED <<g, res, ord, child, neat, genome_bank, call>>

\* The fitness values drawn: crossover reads only their order.
Fitness == {1, 2}

DoCrossover ==
    /\ child.status = "none"
    /\ \E a_is_g \in BOOLEAN, fitness_a \in Fitness, fitness_b \in Fitness :
         LET a == IF a_is_g THEN g ELSE other
             b == IF a_is_g THEN other ELSE g
         IN \E node_count \in NodeCountChoices(a, fitness_a, b, fitness_b),
              out_from_a \in SUBSET (0..(a.outputs - 1)),
              gene_from_a \in SUBSET (Innovations(a) \cap Innovations(b)) :
            /\ LET r == Crossover(a, fitness_a, b, fitness_b, node_count,
                                  out_from_a, gene_from_a)
               IN child' = [status |-> r.status, why |-> r.why, genome |-> r.genome,
                            a_is_g |-> a_is_g, fitness_a |-> fitness_a,
                            fitness_b |-> fitness_b]
            /\ UNCHANGED <<g, other, res, ord, neat, genome_bank, call>>

\* The first genome has one input and one output; the second may differ.
InitCross ==
    /\ g \in {gn \in InitialGenomes : gn.inputs = 1 /\ gn.outputs = 1}
    /\ other = g
    /\ res = NoRes
    /\ ord = NoOrd
    /\ child = NoChild
    /\ neat = NoNeat
    /\ genome_bank = NoBank
    /\ call = NoCall

NextCross ==
    \/ DoMutate
    \/ DoClone
    \/ DoFresh
    \/ DoCrossover

SpecCross == InitCross /\ [][NextCross]_vars

(***************************************************************************)
(* node_order_with applied to g.  A run ends with the call, whose outcome  *)
(* stays in ord.  The genome and the list given share the bound MaxSize.   *)
(***************************************************************************)
ExtraLists(gn) ==
    UNION {[1..n -> {ConnectionGeneNew(f, t) : f \in NodeIdx(gn), t \in NodeIdx(gn)}] :
              n \in 0..(MaxSize - Size(gn))}

DoNodeOrderWith ==
    /\ ~ord.called
    /\ \E extra \in ExtraLists(g) :
          ord' = [called |-> TRUE, extra |-> extra, result |-> NodeOrderWith(g, extra)]
    /\ UNCHANGED <<g, other, res, child, neat, genome_bank, call>>

NextOrder ==
    \/ DoMutate
    \/ DoNodeOrderWith

SpecOrder == Init /\ [][NextOrder]_vars

(***************************************************************************)
(* The driver: NEAT::start over a GenomeBank.  The bank's maps are keyed   *)
(* by genome id.  A genome of the driver is its id and its genes, the      *)
(* genes being one of a few values that stand for all it is made of.  The  *)
(* species set and the reporter hold no state the loop reads.              *)
(***************************************************************************)
Percents == {0, 50, 100}     \* (ratio * 100.).round() of survival_ratio, elitism
FitnessValues == {-1, 0, 1}  \* recorded fitnesses: the fitness function's value less the costs
FirstIds == {0, 1}           \* the id of the first genome made
Genes == {"new", "other"}    \* genes of Genome::new, and any other genes

NoGenomes == [id \in {} |-> "new"]
DriverGenome(id, genes) == [id |-> id, genes |-> genes]

NoGoal == [some |-> FALSE, goal |-> 0]
Goal(v) == [some |-> TRUE, goal |-> v]

Configurations ==
    [population_size : 0..MaxPopulation,
     max_generations : 0..MaxGenerations,
     survival_pct : Percents,
     elitism_pct : Percents,
     fitness_goal : {NoGoal, Goal(1)}]

NoFitnesses == [id \in {} |-> 0]

\* no get_best call made yet
NoBest == [status |-> "none", id |-> 0, fitness |-> 0]

\* GenomeBank::new inside NEAT::new, then set_configuration
NEATNew(config, first_id) ==
    [pc |-> "new", configuration |-> config, i |-> 0,
     genomes |-> NoGenomes, previous_genomes |-> NoGenomes,
     fitnesses |-> NoFitnesses, ranking |-> <<>>,
     elites |-> <<>>, non_elites |-> <<>>, offspring |-> <<>>,
     next_id |-> first_id, best |-> NoBest]

\* the ids of n new genomes: never used before, the first being next_id
FreshIds(next_id, n) == [k \in 1..n |-> next_id + (k - 1)]

\* the lists of n new genomes whose genes are among `genes`
FreshGenomes(next_id, n, genes) ==
    {[k \in 1..n |-> DriverGenome(FreshIds(next_id, n)[k], gs[k])] :
        gs \in [1..n -> genes]}

\* HashMap::insert(key, value): a later insert under a key replaces the value
Insert(map, key, value) ==
    [k \in DOMAIN map \cup {key} |-> IF k = key THEN value ELSE map[k]]

RECURSIVE AddGenomesFrom(_, _, _)
AddGenomesFrom(genomes, list, k) ==
    IF k > Len(list) THEN genomes
    ELSE AddGenomesFrom(Insert(genomes, list[k].id, list[k].genes), list, k + 1)

\* add_genome for each genome of a list: insert under the genome's id
AddGenomes(genomes, list) == AddGenomesFrom(genomes, list, 1)

\* clear that keeps the recorded fitnesses
ClearKeepFitnesses(bank) ==
    [bank EXCEPT !.previous_genomes = bank.genomes, !.genomes = NoGenomes]

\* clear: a new bank whose previous_genomes are the current genomes
Clear(bank) ==
    [bank EXCEPT !.previous_genomes = bank.genomes, !.genomes = NoGenomes,
                 !.fitnesses = NoFitnesses]

\* test_fitness: the fitnesses are collected, then mark_fitness inserts one
\* for every genome of the bank; entries under other ids stay
TestFitness(bank) ==
    {[bank EXCEPT !.fitnesses =
         [id \in DOMAIN bank.fitnesses \cup DOMAIN bank.genomes |->
             IF id \in DOMAIN bank.genomes THEN f[id] ELSE bank.fitnesses[id]]] :
        f \in [DOMAIN bank.genomes -> FitnessValues]}

\* (len * (ratio * 100.).round() as usize).div_euclid(100)
CountOf(len, pct) == (len * pct) \div 100

Take(list, n) == SubSeq(list, 1, IF n < Len(list) THEN n ELSE Len(list))

\* genomes_by_adjusted_fitness: the genomes of the bank in an order fixed by
\* the adjusted fitnesses and the iteration order of the map; any order here
GenomesByAdjustedFitness(bank) ==
    LET ids == DOMAIN bank.genomes
    IN {[k \in 1..Cardinality(ids) |-> DriverGenome(order[k], bank.genomes[order[k]])] :
           order \in {o \in [1..Cardinality(ids) -> ids] : Range(o) = ids}}

\* get_best: the fold starts from (0, 0.) and a genome replaces the best
\* when its fitness is greater
BestFitness(bank) ==
    LET values == {0} \cup {bank.fitnesses[id] : id \in DOMAIN bank.fitnesses}
    IN CHOOSE v \in values : \A w \in values : w <= v

BestGenomeIds(bank) ==
    IF BestFitness(bank) > 0
    THEN {id \in DOMAIN bank.fitnesses : bank.fitnesses[id] = BestFitness(bank)}
    ELSE {0}

\* get_best unwraps the genome stored under the best id
GetBestPanics(bank, best_genome_id) == best_genome_id \notin DOMAIN bank.genomes

\* get_best: (best_genome_id, best_genome, best_fitness), or a panic
GetBest(bank, best_genome_id) ==
    IF GetBestPanics(bank, best_genome_id)
    THEN [status |-> "panic", id |-> 0, fitness |-> 0]
    ELSE [status |-> "ok", id |-> best_genome_id, fitness |-> BestFitness(bank)]

\* new_genomes without the elites
NewGenomesOffspringOnly(elites, offspring) == offspring
\* new_genomes: the elites, then the offspring
NewGenomes(elites, offspring) == elites \o offspring

\* number of crossovers asked for in one round of the refill loop
RequestAll(population_size, have) == population_size
RequestCount(population_size, have) == population_size - have

InitDriver ==
    /\ g = GenomeFixture(0, 0, 0)
    /\ other = g
    /\ res = NoRes
    /\ ord = NoOrd
    /\ child = NoChild
    /\ neat \in {NEATNew(config, first_id) :
                  config \in Configurations, first_id \in FirstIds}
    /\ genome_bank = NoBank
    /\ call = NoCall

\* start, up to the head of the generation loop: the initial genomes
DrvCreateInitialGenomes ==
    /\ neat.pc = "new"
    /\ LET population_size == neat.configuration.population_size
       IN neat' = [neat EXCEPT
              !.genomes = AddGenomes(neat.genomes,
                  CHOOSE list \in FreshGenomes(neat.next_id, population_size, {"new"}) : TRUE),
              !.next_id = neat.next_id + population_size,
              !.i = 1,
              !.pc = IF neat.configuration.max_generations >= 1
                     THEN "generation" ELSE "finish"]
    /\ UNCHANGED <<g, other, res, ord, child, genome_bank, call>>

\* head of the loop body: test_fitness, speciate, survivors and elites
DrvSelect ==
    /\ neat.pc = "generation"
    /\ \E tested \in TestFitness(neat) :
       \E ranking \in GenomesByAdjustedFitness(tested) :
          LET len == Cardinality(DOMAIN tested.genomes)
              survived_count == CountOf(len, neat.configuration.survival_pct)
              elites_count == CountOf(len, neat.configuration.elitism_pct)
              all_genomes == Take(ranking, survived_count)
          IN neat' = [tested EXCEPT
                 !.ranking = ranking,
                 !.elites = Take(all_genomes, elites_count),
                 !.non_elites = all_genomes,
                 !.offspring = <<>>,
                 !.best = NoBest,
                 !.pc = "refill"]
    /\ UNCHANGED <<g, other, res, ord, child, genome_bank, call>>

\* one round of the refill loop: crossovers of random survivors, the
\* children that crossover returned appended to offspring
DrvRefill ==
    /\ neat.pc = "refill"
    /\ Len(neat.elites) + Len(neat.offspring) < neat.configuration.population_size
    /\ LET asked == RequestCount(neat.configuration.population_size,
                                 Len(neat.elites) + Len(neat.offspring))
       IN IF asked > 0 /\ Len(neat.non_elites) = 0
          THEN neat' = [neat EXCEPT !.pc = "panic"]
          ELSE \E n \in 0..asked :
               \E children \in FreshGenomes(neat.next_id, n, Genes) :
                  neat' = [neat EXCEPT
                      !.offspring = neat.offspring \o children,
                      !.next_id = neat.next_id + n]
    /\ UNCHANGED <<g, other, res, ord, child, genome_bank, call>>

\* after the refill loop: clear, add_genome of elites and offspring,
\* test_fitness, the goal test and the step to the next generation
DrvReplace ==
    /\ neat.pc = "refill"
    /\ Len(neat.elites) + Len(neat.offspring) >= neat.configuration.population_size
    /\ LET new_genomes == NewGenomes(neat.elites, neat.offspring)
           cleared == Clear(neat)
           added == [cleared EXCEPT !.genomes = AddGenomes(cleared.genomes, new_genomes)]
       IN \E tested \in TestFitness(added) :
          \E best_genome_id \in BestGenomeIds(tested) :
             LET goal == neat.configuration.fitness_goal
                 goal_reached == goal.some /\ BestFitness(tested) >= goal.goal
             IN neat' = [tested EXCEPT
                    !.ranking = <<>>,
                    !.elites = <<>>, !.non_elites = <<>>, !.offspring = <<>>,
                    !.i = IF \/ goal_reached
                             \/ neat.i = neat.configuration.max_generations
                             \/ goal.some /\ GetBestPanics(tested, best_genome_id)
                          THEN neat.i ELSE neat.i + 1,
                    !.best = IF goal.some THEN GetBest(tested, best_genome_id)
                             ELSE neat.best,
                    !.pc = IF goal.some /\ GetBestPanics(tested, best_genome_id)
                           THEN "panic"
                           ELSE IF goal_reached
                                   \/ neat.i = neat.configuration.max_generations
                           THEN "finish" ELSE "generation"]
    /\ UNCHANGED <<g, other, res, ord, child, genome_bank, call>>

\* after the loop: get_best for the result
DrvFinish ==
    /\ neat.pc = "finish"
    /\ \E best_genome_id \in BestGenomeIds(neat) :
          neat' = [neat EXCEPT !.best = GetBest(neat, best_genome_id),
                               !.pc = IF GetBestPanics(neat, best_genome_id)
                                      THEN "panic" ELSE "done"]
    /\ UNCHANGED <<g, other, res, ord, child, genome_bank, call>>

NextDriver ==
    \/ DrvCreateInitialGenomes
    \/ DrvSelect
    \/ DrvRefill
    \/ DrvReplace
    \/ DrvFinish

SpecDriver == InitDriver /\ [][NextDriver]_vars

\* start is sequential code: it keeps taking steps while it can, and a round
\* of the refill loop that can return a child eventually does.
SpecDriverFair == SpecDriver /\ WF_vars(NextDriver)

(***************************************************************************)
(* GenomeBank on its own: add_genome, mark_fitness, speciate,              *)
(* adjusted_fitnesses and clear, over genomes that carry what the bank     *)
(* reads of them: node genes (activation, aggregation, bias) and           *)
(* connection genes (innovation number, disabled, weight).                 *)
(***************************************************************************)
MaxBank == 3     \* genomes made for the bank in one run

NodeGeneOf(bias) == [activation |-> "Sigmoid", aggregation |-> "Sum", bias |-> bias]
ConnectionGeneOf(innovation_number, disabled, weight) ==
    [innovation_number |-> innovation_number, disabled |-> disabled, weight |-> weight]

\* Genome::new(1, 1) with the given weight on its one connection
WeightedGenome(weight) ==
    [nodes |-> <<NodeGeneOf(0), NodeGeneOf(0)>>,
     connections |-> <<ConnectionGeneOf(1, FALSE, weight)>>]

\* a genome with a node and no connection gene
BareGenome == [nodes |-> <<NodeGeneOf(0)>>, connections |-> <<>>]

BankGenomes == {WeightedGenome(0), WeightedGenome(1), WeightedGenome(2), BareGenome}

BankFitnessValues == {0, 2}

\* the Configuration fields the bank reads; the distance coefficients are 1
BankConfigurations ==
    [node_cost : {1},
     connection_cost : {0, 1},
     compatibility_threshold : {0, 1},
     distance_connection_disjoint_coefficient : {1},
     distance_connection_weight_coeficcient : {1},
     distance_connection_disabled_coefficient : {1},
     distance_node_bias_coefficient : {1},
     distance_node_activation_coefficient : {1},
     distance_node_aggregation_coefficient : {1}]

NoSpecies == [id \in {} |-> <<>>]

\* GenomeBank::new
GenomeBankNew(config) ==
    [configuration |-> config, genomes |-> NoGenomes, previous_genomes |-> NoGenomes,
     fitnesses |-> NoFitnesses, species |-> NoSpecies, next_id |-> 1]

\* add_genome
AddGenome(b, id, genome) == [b EXCEPT !.genomes = Insert(b.genomes, id, genome)]

\* mark_fitness
MarkFitness(b, genome_id, fitness) ==
    [b EXCEPT !.fitnesses = Insert(b.fitnesses, genome_id, fitness)]

\* clear: a new bank whose previous_genomes are the current genomes
BankClear(b) ==
    [GenomeBankNew(b.configuration) EXCEPT !.previous_genomes = b.genomes,
                                           !.next_id = b.next_id]

\* all_genomes_tested
AllGenomesTested(b) == \A genome_id \in DOMAIN b.genomes : genome_id \in DOMAIN b.fitnesses

Abs(x) == IF x < 0 THEN -x ELSE x
UsizeMax(x, y) == IF x >= y THEN x ELSE y

\* the innovation numbers of a's connections followed by b's
ChainedInnovations(a, b) ==
    [k \in 1..(Len(a.connections) + Len(b.connections)) |->
        IF k <= Len(a.connections) THEN a.connections[k].innovation_number
        ELSE b.connections[k - Len(a.connections)].innovation_number]

\* disjoint_map: an innovation number met once is disjoint, met again is not
IsDisjoint(a, b, innovation_number) ==
    Cardinality({k \in DOMAIN ChainedInnovations(a, b) :
                    ChainedInnovations(a, b)[k] = innovation_number}) = 1

\* find(|connection| connection.innovation_number() == innovation_number)
FindInnovation(gn, innovation_number) ==
    LET ks == {k \in 1..Len(gn.connections) :
                  gn.connections[k].innovation_number = innovation_number}
    IN gn.connections[CHOOSE k \in ks : \A j \in ks : k <= j]

\* the sum of term[k] for k in 1..n
SumOf(term, n) ==
    LET partial[k \in 0..n] == IF k = 0 THEN 0 ELSE partial[k - 1] + term[k]
    IN partial[n]

\* what a pair of common connections adds to the distance
ConnectionDistance(config, connection_a, connection_b) ==
    (IF connection_a.disabled # connection_b.disabled
     THEN config.distance_connection_disabled_coefficient ELSE 0)
    + Abs(connection_a.weight - connection_b.weight)
      * config.distance_connection_weight_coeficcient

\* what a pair of zipped nodes adds to the distance
NodeDistance(config, node_a, node_b) ==
    (IF node_a.activation # node_b.activation
     THEN config.distance_node_activation_coefficient ELSE 0)
    + (IF node_a.aggregation # node_b.aggregation
       THEN config.distance_node_aggregation_coefficient ELSE 0)
    + Abs(node_a.bias - node_b.bias) * config.distance_node_bias_coefficient

\* the numerator of the connection term of the distance:
\* connections_difference_factor + disjoint_factor
ConnectionsFactor(config, a, b) ==
    LET numbers == Range(ChainedInnovations(a, b))
        disjoint == {n \in numbers : IsDisjoint(a, b, n)}
        common == SetToAscSeq(numbers \ disjoint)
        differences == [k \in 1..Len(common) |->
            ConnectionDistance(config, FindInnovation(a, common[k]),
                               FindInnovation(b, common[k]))]
    IN SumOf(differences, Len(common))
       + Cardinality(disjoint) * config.distance_connection_disjoint_coefficient

\* nodes_difference_factor: over a.nodes zipped with b.nodes
NodesFactor(config, a, b) ==
    LET n == IF Len(a.nodes) <= Len(b.nodes) THEN Len(a.nodes) ELSE Len(b.nodes)
    IN SumOf([k \in 1..n |-> NodeDistance(config, a.nodes[k], b.nodes[k])], n)

\* are_genomes_related: distance <= compatibility_threshold, where the
\* distance is nodes + connections / max_connection_genes in f64.  Without
\* any connection gene that is 0 / 0 = NaN, and NaN <= threshold is false.
AreGenomesRelated(config, a, b) ==
    LET max_connection_genes == UsizeMax(Len(a.connections), Len(b.connections))
    IN IF max_connection_genes = 0 THEN FALSE
       ELSE NodesFactor(config, a, b) * max_connection_genes
               + ConnectionsFactor(config, a, b)
            <= config.compatibility_threshold * max_connection_genes

\* the orders a HashMap may iterate its keys in
IterationOrders(keys) ==
    {order \in [1..Cardinality(keys) -> keys] : Range(order) = keys}

\* species.iter().find(..): the first species, in the iteration order of the
\* species map, whose first member is related to the genome; 0 for none,
\* else its position in the order
FindSpecies(b, species, species_order, genome) ==
    LET found == {j \in 1..Len(species_order) :
            /\ Len(species[species_order[j]]) > 0
            /\ species[species_order[j]][1] \in DOMAIN b.genomes
            /\ AreGenomesRelated(b.configuration, genome,
                                 b.genomes[species[species_order[j]][1]])}
    IN IF found = {} THEN 0 ELSE CHOOSE j \in found : \A i \in found : j <= i

RECURSIVE SpeciateFrom(_, _, _, _, _)
\* the loop of speciate from the k-th genome of the iteration order on: the
\* species maps it can end with.  An insert may change the order the species
\* map is iterated in; a push to a species does not.
SpeciateFrom(b, order, k, species, species_order) ==
    IF k > Len(order) THEN {species}
    ELSE LET genome_id == order[k]
             j == FindSpecies(b, species, species_order, b.genomes[genome_id])
         IN IF j # 0
            THEN SpeciateFrom(b, order, k + 1,
                     [species EXCEPT ![species_order[j]] = Append(@, genome_id)],
                     species_order)
            ELSE LET inserted == Insert(species, Cardinality(DOMAIN species),
                                        <<genome_id>>)
                 IN UNION {SpeciateFrom(b, order, k + 1, inserted, new_order) :
                              new_order \in IterationOrders(DOMAIN inserted)}

\* speciate: species.clear(), then the loop over the genomes
Speciate(b) ==
    {[b EXCEPT !.species = species] :
        species \in UNION {SpeciateFrom(b, order, 1, NoSpecies, <<>>) :
                              order \in IterationOrders(DOMAIN b.genomes)}}

\* the species lists that contain the genome id
SpeciesOf(b, genome_id) ==
    {sid \in DOMAIN b.species : genome_id \in Range(b.species[sid])}

\* adjusted_fitnesses panics: a genome without fitness (expect), or in no
\* species (unwrap)
AdjustedFitnessesPanics(b) ==
    \E genome_id \in DOMAIN b.genomes :
        genome_id \notin DOMAIN b.fitnesses \/ SpeciesOf(b, genome_id) = {}

\* adjusted_fitnesses: per genome the quotient num / den
AdjustedFitnesses(b) ==
    [genome_id \in DOMAIN b.genomes |->
        LET genome == b.genomes[genome_id]
            genome_node_cost == Len(genome.nodes) * b.configuration.node_cost
            genome_connection_cost == Len(genome.nodes) * b.configuration.connection_cost
            related_genome_count ==
                Len(b.species[CHOOSE sid \in SpeciesOf(b, genome_id) : TRUE])
        IN [num |-> b.fitnesses[genome_id] - genome_node_cost - genome_connection_cost,
            den |-> related_genome_count]]

InitBank ==
    /\ g = GenomeFixture(0, 0, 0)
    /\ other = g
    /\ res = NoRes
    /\ ord = NoOrd
    /\ child = NoChild
    /\ neat = NoNeat
    /\ genome_bank \in {GenomeBankNew(config) : config \in BankConfigurations}
    /\ call = NoCall

\* add_genome of a genome just made, one of pool: its id is new; at most max
\* are made
AddGenomeUpTo(max, pool) ==
    /\ genome_bank.next_id <= max
    /\ \E genome \in pool :
          genome_bank' = [AddGenome(genome_bank, genome_bank.next_id, genome)
                             EXCEPT !.next_id = genome_bank.next_id + 1]
    /\ call' = [op |-> "add_genome", status |-> "ok"]
    /\ UNCHANGED <<g, other, res, ord, child, neat>>

DoAddGenome == AddGenomeUpTo(MaxBank, BankGenomes)

\* mark_fitness of a genome of the current generation
DoMarkFitness ==
    /\ \E genome_id \in DOMAIN genome_bank.genomes, fitness \in BankFitnessValues :
          genome_bank' = MarkFitness(genome_bank, genome_id, fitness)
    /\ call' = [op |-> "mark_fitness", status |-> "ok"]
    /\ UNCHANGED <<g, other, res, ord, child, neat>>

DoSpeciate ==
    /\ genome_bank' \in Speciate(genome_bank)
    /\ call' = [op |-> "speciate", status |-> "ok"]
    /\ UNCHANGED <<g, other, res, ord, child, neat>>

DoAdjustedFitnesses ==
    /\ call' = IF AdjustedFitnessesPanics(genome_bank)
               THEN [op |-> "adjusted_fitnesses", status |-> "panic"]
               ELSE [op |-> "adjusted_fitnesses", status |-> "ok",
                     value |-> AdjustedFitnesses(genome_bank)]
    /\ UNCHANGED <<g, other, res, ord, child, neat, genome_bank>>

DoClear ==
    /\ genome_bank' = BankClear(genome_bank)
    /\ call' = [op |-> "clear", status |-> "ok"]
    /\ UNCHANGED <<g, other, res, ord, child, neat>>

NextBank ==
    \/ DoAddGenome
    \/ DoMarkFitness
    \/ DoSpeciate
    \/ DoAdjustedFitnesses
    \/ DoClear

SpecBank == InitBank /\ [][NextBank]_vars

(***************************************************************************)
(* speciate alone, on a bank of up to MaxSpeciate genomes.                 *)
(***************************************************************************)
MaxSpeciate == 4     \* genomes made for the bank in one run

\* genomes with one connection gene each, whose weights are 0, 1 and 2
SpeciateGenomes == {WeightedGenome(0), WeightedGenome(1), WeightedGenome(2)}

\* speciate reads the threshold and the coefficients, not the costs
SpeciateConfigurations == {config \in BankConfigurations : config.connection_cost = 0}

InitSpeciate ==
    /\ g = GenomeFixture(0, 0, 0)
    /\ other = g
    /\ res = NoRes
    /\ ord = NoOrd
    /\ child = NoChild
    /\ neat = NoNeat
    /\ genome_bank \in {GenomeBankNew(config) : config \in SpeciateConfigurations}
    /\ call = NoCall

DoAddGenomeToSpeciate == AddGenomeUpTo(MaxSpeciate, SpeciateGenomes)

NextSpeciate ==
    \/ DoAddGenomeToSpeciate
    \/ DoSpeciate

SpecSpeciate == InitSpeciate /\ [][NextSpeciate]_vars

(***************************************************************************)
(* Graph notions the properties are stated with.                           *)
(***************************************************************************)
\* The edges of a list of connection genes.
EdgesOf(conns) == {<<conns[k].from, conns[k].to>> : k \in 1..Len(conns)}

RECURSIVE TransitiveClosure(_)
TransitiveClosure(E) ==
    LET step == E \cup {<<p[1][1], p[2][2]>> : p \in {q \in E \X E : q[1][2] = q[2][1]}}
    IN IF step = E THEN E ELSE TransitiveClosure(step)

\* A directed cycle (a self-loop included) among the edges.
CyclicEdges(E) == \E e \in TransitiveClosure(E) : e[1] = e[2]

\* The enabled connections of gn together with extra contain a cycle.
HasCycle(gn, extra) == CyclicEdges(EdgesOf(EnabledConnections(gn) \o extra))

\* position of node i in an order
PositionIn(order, i) == CHOOSE k \in 1..Len(order) : order[k] = i

\* order holds every node index of gn exactly once
IsNodePermutation(gn, order) ==
    /\ Len(order) = NodeCount(gn)
    /\ Range(order) = NodeIdx(gn)

\* every edge goes forward in the order
RespectsEdges(order, E) ==
    \A e \in E : PositionIn(order, e[1]) < PositionIn(order, e[2])

(***************************************************************************)
(* Properties of the genome operations (Spec).                             *)
(***************************************************************************)
\* C1: after any sequence of add_node, add_connection (successful or failed)
\* and disable_connection, the enabled connections of the genome contain no
\* cycle and no self-loop.
C1_EnabledAcyclic == ~HasCycle(g, <<>>)

\* C1 witness: an add_connection between two distinct nodes was rejected
\* because the candidate would have closed a cycle.
C1_Witness ==
    /\ res.op = "add_connection"
    /\ ~res.ok
    /\ res.from # res.to
    /\ Kind(g, res.from) # "Output"
    /\ Kind(g, res.to) # "Input"
    /\ ~IsProjectingDirectly(g, res.from, res.to)
    /\ HasCycle(g, <<ConnectionGeneNew(res.from, res.to)>>)

\* C2: no two connection genes of the genome, enabled or disabled, have the
\* same (from, to); add_connection on a pair whose gene exists never adds a
\* gene: it enables the disabled gene, or fails when the gene is enabled.
C2_UniquePairs ==
    /\ \A j, k \in 1..Len(g.connection_genes) :
          (/\ g.connection_genes[j].from = g.connection_genes[k].from
           /\ g.connection_genes[j].to = g.connection_genes[k].to) => j = k
    /\ \A from \in NodeIdx(g), to \in NodeIdx(g) :
          LET k == FindConnection(g, from, to)
              r == AddConnection(g, from, to)
          IN k # 0 =>
                /\ Len(r.genome.connection_genes) = Len(g.connection_genes)
                /\ ~g.connection_genes[k].disabled => ~r.ok
                /\ r.ok => ~r.genome.connection_genes[k].disabled

\* C2 witness: add_connection succeeded on a pair whose gene was already in
\* the list before the last position, so a disabled gene was enabled again.
C2_Witness ==
    /\ res.op = "add_connection"
    /\ res.ok
    /\ FindConnection(g, res.from, res.to) # 0
    /\ FindConnection(g, res.from, res.to) < Len(g.connection_genes)

\* C4: a step in which add_connection returns Err leaves the genome as it was.
C4_ErrLeavesUnchanged ==
    [][(res'.op = "add_connection" /\ ~res'.ok) => g' = g]_vars

\* C4 witness: add_connection of a back-edge returned Err on a genome with at
\* least two connection genes, the edge closing a cycle of two or more edges.
C4_Witness ==
    /\ res.op = "add_connection"
    /\ ~res.ok
    /\ res.from # res.to
    /\ Len(g.connection_genes) >= 2
    /\ ~NodeOrderWith(g, <<ConnectionGeneNew(res.from, res.to)>>).some
    /\ <<res.to, res.from>> \in TransitiveClosure(EdgesOf(EnabledConnections(g)))

(***************************************************************************)
(* Properties of node_order_with (SpecOrder).                              *)
(***************************************************************************)
\* the answer of node_order_with is right for the graph of enabled and extra edges
OrderAnswerRight ==
    LET E == EdgesOf(EnabledConnections(g) \o ord.extra)
    IN /\ ~ord.result.some <=> CyclicEdges(E)
       /\ ord.result.some =>
             /\ IsNodePermutation(g, ord.result.order)
             /\ RespectsEdges(ord.result.order, E)

\* C3 as stated: for every list of extra connections between existing nodes,
\* node_order_with returns None iff enabled and extra edges contain a cycle,
\* and an order returned holds every node once with every edge going forward.
C3_Original == ord.called => OrderAnswerRight

\* no extra connection ends at an Input node
NoExtraIntoInput ==
    \A k \in 1..Len(ord.extra) : Kind(g, ord.extra[k].to) # "Input"

\* C3 amended: the same, for lists of extra connections none of which ends at
\* an Input node.
C3_Amended == (ord.called /\ NoExtraIntoInput) => OrderAnswerRight

\* C3 witness: node_order_with returned None for extra connections, none
\* into an Input node, that close a cycle the genome alone does not have.
C3_Witness ==
    /\ ord.called
    /\ NoExtraIntoInput
    /\ Len(ord.extra) >= 1
    /\ ~ord.result.some
    /\ ~HasCycle(g, <<>>)
    /\ \A k \in 1..Len(ord.extra) : ord.extra[k].from # ord.extra[k].to

(***************************************************************************)
(* Properties of crossover (SpecCross).                                    *)
(***************************************************************************)
ParentA == IF child.a_is_g THEN g ELSE other
ParentB == IF child.a_is_g THEN other ELSE g
Crossed == child.status # "none"
SameCounts == ParentA.inputs = ParentB.inputs /\ ParentA.outputs = ParentB.outputs

\* C5: crossover of parents whose input counts or output counts differ
\* fails, whatever the fitness values; with equal counts it does not fail
\* for that reason.
C5_MismatchFails ==
    Crossed =>
        /\ ~SameCounts => child.status = "panic"
        /\ SameCounts => ~(child.status = "panic" /\ child.why = "inputs_outputs")

\* C5 witness: a crossover of parents with equal input counts and different
\* output counts failed.
C5_Witness ==
    /\ Crossed
    /\ ParentA.inputs = ParentB.inputs
    /\ ParentA.outputs # ParentB.outputs
    /\ child.status = "panic"

\* C6: a child returned by crossover has no cycle among its enabled connections.
C6_ChildAcyclic == child.status = "ok" => ~HasCycle(child.genome, <<>>)

Min(x, y) == IF x <= y THEN x ELSE y
Max(x, y) == IF x >= y THEN x ELSE y

\* C7: with equal fitnesses the node count of the child is drawn from the
\* whole range min..max of the parents' node counts, the maximum included;
\* with unequal fitnesses it is the node count of the fitter parent.
C7_NodeCountRange ==
    SameCounts =>
        \A fitness_a \in Fitness, fitness_b \in Fitness :
            NodeCountChoices(ParentA, fitness_a, ParentB, fitness_b)
              = IF fitness_a = fitness_b
                THEN Min(NodeCount(ParentA), NodeCount(ParentB))
                       ..Max(NodeCount(ParentA), NodeCount(ParentB))
                ELSE IF fitness_a > fitness_b THEN {NodeCount(ParentA)}
                ELSE {NodeCount(ParentB)}

Fitter == IF child.fitness_a > child.fitness_b THEN ParentA ELSE ParentB

\* C8: with unequal fitnesses the child has exactly the innovation numbers
\* of the fitter parent, each once; a gene of one parent only is the fitter
\* parent's gene, a gene of both is a copy of one of the two.
C8_FitterGenes ==
    (child.status = "ok" /\ child.fitness_a # child.fitness_b) =>
        LET conns == child.genome.connection_genes
        IN /\ Innovations(child.genome) = Innovations(Fitter)
           /\ Len(conns) = Cardinality(Innovations(child.genome))
           /\ \A k \in 1..Len(conns) :
                 conns[k] \in FindGene(ParentA, InnovationNumber(conns[k]))
                              \cup FindGene(ParentB, InnovationNumber(conns[k]))

\* C8 witness: a crossover returned a child when the fitter parent was passed
\* second and had a gene the other lacks, and the parents carried a common
\* innovation with different disabled flags.
C8_Witness ==
    /\ child.status = "ok"
    /\ child.fitness_a < child.fitness_b
    /\ Innovations(ParentB) \ Innovations(ParentA) # {}
    /\ \E n \in Innovations(ParentA) \cap Innovations(ParentB) :
          FindGene(ParentA, n) # FindGene(ParentB, n)

\* C9: crossing a genome with itself at equal fitness completes and gives a
\* child with the node list and the set of connection genes of the genome.
C9_SelfCrossover ==
    (Crossed /\ g = other /\ child.fitness_a = child.fitness_b) =>
        /\ child.status = "ok"
        /\ child.genome.node_genes = g.node_genes
        /\ Range(child.genome.connection_genes) = Range(g.connection_genes)

(***************************************************************************)
(* Properties of the driver (SpecDriver).                                  *)
(***************************************************************************)
\* C10: at the start of every generation after the first, the bank's map of
\* current genomes holds exactly population_size genomes.
C10_PopulationSize ==
    (neat.pc = "generation" /\ neat.i > 1) =>
        Cardinality(DOMAIN neat.genomes) = neat.configuration.population_size

\* C10 witness: a generation after the first starts with a population of
\* three that holds one elite of the first generation and two children.
C10_Witness ==
    /\ neat.pc = "generation"
    /\ neat.i > 1
    /\ neat.configuration.population_size = 3
    /\ DOMAIN neat.genomes \cap DOMAIN neat.previous_genomes # {}
    /\ Cardinality(DOMAIN neat.genomes \ DOMAIN neat.previous_genomes) = 2

\* a step that puts elites and offspring in place of the old generation
ReplaceStep ==
    /\ neat.pc = "refill"
    /\ Len(neat.elites) + Len(neat.offspring) >= neat.configuration.population_size
    /\ neat'.pc # "refill"

\* the first n genomes of the ranking are in the new generation, id and genes
TopCarriedOver(n) ==
    \A k \in 1..n :
        /\ k <= Len(neat.ranking)
        /\ neat.ranking[k].id \in DOMAIN neat'.genomes
        /\ neat'.genomes[neat.ranking[k].id] = neat.ranking[k].genes

Returned == neat.pc = "done"
Over == neat.pc \in {"done", "panic"}

\* the survivor pool of every generation is non-empty
SurvivorPoolNonEmpty ==
    neat.configuration.population_size * neat.configuration.survival_pct >= 100

StartedWithPool == neat.pc = "new" /\ SurvivorPoolNonEmpty

\* C12: every call of start with a non-empty survivor pool eventually
\* returns.
C12_StartReturns == StartedWithPool ~> Returned

\* every call of start comes to an end, by returning or by a panic
StartEnds == neat.pc = "new" ~> Over

\* the loop runs at most max_generations generations, and none after the
\* goal was reached
GenerationsCapped ==
    /\ neat.pc # "new" =>
          neat.i <= IF neat.configuration.max_generations = 0 THEN 1
                    ELSE neat.configuration.max_generations
    /\ (neat.pc = "generation" /\ neat.i > 1 /\ neat.configuration.fitness_goal.some) =>
          BestFitness(neat) < neat.configuration.fitness_goal.goal

(***************************************************************************)
(* Properties of the GenomeBank (SpecBank).                                *)
(***************************************************************************)
\* C13: for every genome of the current generation, adjusted_fitnesses gives
\* (recorded fitness - node_cost * node genes - connection_cost * connection
\* genes) / members of the genome's species.
C13_AdjustedFitness ==
    (call.op = "adjusted_fitnesses" /\ call.status = "ok") =>
        \A genome_id \in DOMAIN genome_bank.genomes :
            LET genome == genome_bank.genomes[genome_id]
                config == genome_bank.configuration
                members == Len(genome_bank.species[
                               CHOOSE sid \in SpeciesOf(genome_bank, genome_id) : TRUE])
            IN call.value[genome_id].num * members
                 = (genome_bank.fitnesses[genome_id]
                      - config.node_cost * Len(genome.nodes)
                      - config.connection_cost * Len(genome.connections))
                   * call.value[genome_id].den

\* C14: with a genome of the current generation that has no recorded
\* fitness, speciate and adjusted_fitnesses fail; with every fitness recorded
\* and speciate run, adjusted_fitnesses succeeds.
C14_UntestedGenomeFails ==
    /\ (call.op \in {"speciate", "adjusted_fitnesses"} /\ ~AllGenomesTested(genome_bank))
          => call.status = "panic"
    /\ (/\ call.op = "adjusted_fitnesses"
        /\ AllGenomesTested(genome_bank)
        /\ \A genome_id \in DOMAIN genome_bank.genomes :
              SpeciesOf(genome_bank, genome_id) # {})
          => call.status = "ok"

(***************************************************************************)
(* Properties of get_best (SpecDriver).                                    *)
(***************************************************************************)
\* C15: get_best returns the id and the fitness of a genome of the current
\* population whose recorded fitness is the maximum of the recorded
\* fitnesses, whatever the fitness values; start returns them.
C15_GetBest ==
    neat.best.status # "none" =>
        /\ neat.best.status = "ok"
        /\ neat.best.id \in DOMAIN neat.genomes
        /\ neat.best.id \in DOMAIN neat.fitnesses
        /\ neat.fitnesses[neat.best.id] = neat.best.fitness
        /\ \A id \in DOMAIN neat.fitnesses : neat.fitnesses[id] <= neat.best.fitness

\* get_best is right when a recorded fitness is positive
GetBestRightWhenPositive ==
    (neat.best.status # "none" /\ \E id \in DOMAIN neat.fitnesses : neat.fitnesses[id] > 0)
        => C15_GetBest

\* get_best answered although no recorded fitness is positive
GetBestWithoutPositive ==
    /\ neat.best.status = "ok"
    /\ DOMAIN neat.fitnesses # {}
    /\ \A id \in DOMAIN neat.fitnesses : neat.fitnesses[id] < 0

(***************************************************************************)
(* Properties of Genome::new (Spec).                                       *)
(***************************************************************************)
\* the connection genes of gn from node i to node o
GenesBetween(gn, i, o) ==
    {k \in 1..Len(gn.connection_genes) :
        gn.connection_genes[k].from = i /\ gn.connection_genes[k].to = o}

\* gn is what the spec says Genome::new(inputs, outputs) yields
FullyConnected(gn, inputs, outputs) ==
    /\ NodeCount(gn) = inputs + outputs
    /\ \A i \in 0..(inputs - 1) : Kind(gn, i) = "Input"
    /\ \A o \in inputs..(inputs + outputs - 1) : Kind(gn, o) = "Output"
    /\ Len(gn.connection_genes) = inputs * outputs
    /\ \A i \in 0..(inputs - 1) : \A o \in inputs..(inputs + outputs - 1) :
          /\ Cardinality(GenesBetween(gn, i, o)) = 1
          /\ \A k \in GenesBetween(gn, i, o) : ~gn.connection_genes[k].disabled
          /\ GenesBetween(gn, o, i) = {}
          /\ IsProjectingDirectly(gn, i, o)
          /\ ~IsProjectingDirectly(gn, o, i)

\* C16: Genome::new(I, O) has I Input nodes then O Output nodes and exactly
\* I * O connection genes, one enabled gene input -> output per pair and none
\* the other way, so is_projecting_directly(i, o) holds and
\* is_projecting_directly(o, i) does not.
C16_NewFullyConnected ==
    \A io \in Shapes :
        g = GenomeNew(io[1], io[2]) => FullyConnected(g, io[1], io[2])

\* a genome just made by Genome::new(1, 2), nothing applied to it yet
C16_Witness == g = GenomeNew(1, 2) /\ res = NoRes /\ Len(g.connection_genes) = 2

(***************************************************************************)
(* Properties of is_projecting and can_connect (Spec).                     *)
(***************************************************************************)
\* dst is reachable from src over one or more enabled connections of gn
Reachable(gn, src, dst) ==
    <<src, dst>> \in TransitiveClosure(EdgesOf(EnabledConnections(gn)))

\* C17: is_projecting(src, dst) is true exactly when dst is reachable from
\* src by a path of one or more enabled connections, longer paths included.
C17_IsProjectingReachable ==
    \A src \in NodeIdx(g) : \A dst \in NodeIdx(g) :
        IsProjecting(g, src, dst) <=> Reachable(g, src, dst)

\* what is_projecting computes: a direct enabled connection
IsProjectingIsDirect ==
    \A src \in NodeIdx(g) : \A dst \in NodeIdx(g) :
        IsProjecting(g, src, dst) <=> IsProjectingDirectly(g, src, dst)

\* the four conditions of the spec, with projecting standing for "from
\* already projects to to"
FourConditions(gn, from, to, projecting) ==
    /\ Kind(gn, from) # "Output"
    /\ Kind(gn, to) # "Input"
    /\ ~HasCycle(gn, <<ConnectionGeneNew(from, to)>>)
    /\ ~projecting

\* C18: can_connect(from, to) is true exactly when from is not an Output, to
\* is not an Input, the enabled connections plus from -> to stay acyclic, and
\* to is not already reachable from from over enabled connections.
C18_CanConnectTransitive ==
    \A from \in NodeIdx(g) : \A to \in NodeIdx(g) :
        CanConnect(g, from, to)
            <=> FourConditions(g, from, to, Reachable(g, from, to))

\* what can_connect computes: the fourth condition is a direct connection
CanConnectIsDirect ==
    \A from \in NodeIdx(g) : \A to \in NodeIdx(g) :
        CanConnect(g, from, to)
            <=> FourConditions(g, from, to, IsProjectingDirectly(g, from, to))

(***************************************************************************)
(* The genome invariants on the child of a crossover (SpecCross).          *)
(***************************************************************************)
RECURSIVE MutationClosure(_)
\* the genomes add_node / add_connection / disable_connection lead to from S,
\* within the size the model lets a genome grow to
MutationClosure(S) ==
    LET step == S \cup UNION {{m \in Mutations(gn) : Size(m) <= MaxSize} : gn \in S}
    IN IF step = S THEN S ELSE MutationClosure(step)

\* the genomes reachable from Genome::new
FromNew == MutationClosure({GenomeNew(io[1], io[2]) : io \in Shapes})

\* the number of nodes of gn of one kind
CountKind(gn, kind) == Cardinality({i \in NodeIdx(gn) : Kind(gn, i) = kind})

\* every connection joins two nodes of gn
EndpointsValid(gn) ==
    \A k \in 1..Len(gn.connection_genes) :
        /\ gn.connection_genes[k].from < NodeCount(gn)
        /\ gn.connection_genes[k].to < NodeCount(gn)

\* no connection between valid nodes starts at an Output or ends at an Input
KindsRespected(gn) ==
    \A k \in 1..Len(gn.connection_genes) :
        LET c == gn.connection_genes[k]
        IN (c.from < NodeCount(gn) /\ c.to < NodeCount(gn)) =>
              (Kind(gn, c.from) # "Output" /\ Kind(gn, c.to) # "Input")

\* gn has exactly inputs Input nodes and outputs Output nodes
CountsKept(gn, inputs, outputs) ==
    CountKind(gn, "Input") = inputs /\ CountKind(gn, "Output") = outputs

ParentsFromNew == ParentA \in FromNew /\ ParentB \in FromNew

\* C19: the child of a crossover of two parents reachable from Genome::new
\* keeps the genome invariants: the endpoints of its connections are indices
\* of its nodes, no connection starts at an Output or ends at an Input, and
\* it has the parents' numbers of Input and Output nodes.
C19_ChildInvariants ==
    (child.status = "ok" /\ ParentsFromNew) =>
        /\ EndpointsValid(child.genome)
        /\ KindsRespected(child.genome)
        /\ CountsKept(child.genome, ParentA.inputs, ParentA.outputs)

\* the three parts of C19, one by one
ChildEndpointsValid ==
    (child.status = "ok" /\ ParentsFromNew) => EndpointsValid(child.genome)
ChildKindsRespected ==
    (child.status = "ok" /\ ParentsFromNew) => KindsRespected(child.genome)
ChildCountsKept ==
    (child.status = "ok" /\ ParentsFromNew) =>
        CountsKept(child.genome, ParentA.inputs, ParentA.outputs)
\* the parents themselves satisfy the invariants
ParentsInvariants ==
    \A gn \in FromNew :
        EndpointsValid(gn) /\ KindsRespected(gn) /\ CountsKept(gn, gn.inputs, gn.outputs)

(***************************************************************************)
(* Properties of speciate (SpecSpeciate).                                  *)
(***************************************************************************)
\* how often the genome id occurs in the species lists
OccurrencesInSpecies(b, genome_id) ==
    Cardinality({p \in {q \in (DOMAIN b.species) \X (1..MaxSpeciate) :
                          q[2] <= Len(b.species[q[1]])} :
                    b.species[p[1]][p[2]] = genome_id})

Speciated == call.op = "speciate"

\* the species map is a partition of the current generation
SpeciesPartition(b) ==
    /\ \A genome_id \in DOMAIN b.genomes : OccurrencesInSpecies(b, genome_id) = 1
    /\ \A sid \in DOMAIN b.species :
          Len(b.species[sid]) > 0 /\ Range(b.species[sid]) \subseteq DOMAIN b.genomes

\* species ids are exactly 0..k-1
SpeciesIdsDense(b) == DOMAIN b.species = 0..(Cardinality(DOMAIN b.species) - 1)

\* every later member of a species is related to its first member
MembersRelatedToFirst(b) ==
    \A sid \in DOMAIN b.species : \A k \in 2..Len(b.species[sid]) :
        AreGenomesRelated(b.configuration, b.genomes[b.species[sid][k]],
                          b.genomes[b.species[sid][1]])

\* the first member of a species is unrelated to the first member of every
\* species made before it
FirstsUnrelated(b) ==
    \A sid \in DOMAIN b.species : \A earlier \in DOMAIN b.species :
        earlier < sid =>
            ~AreGenomesRelated(b.configuration, b.genomes[b.species[sid][1]],
                               b.genomes[b.species[earlier][1]])

\* identical genomes share one species
IdenticalShare(b) ==
    \A id_a \in DOMAIN b.genomes : \A id_b \in DOMAIN b.genomes :
        b.genomes[id_a] = b.genomes[id_b] => SpeciesOf(b, id_a) = SpeciesOf(b, id_b)

\* a genome unrelated to two identical genomes is in another species
DistantApart(b) ==
    \A id_a \in DOMAIN b.genomes : \A id_b \in DOMAIN b.genomes :
      \A id_c \in DOMAIN b.genomes :
        (/\ id_a # id_b
         /\ b.genomes[id_a] = b.genomes[id_b]
         /\ ~AreGenomesRelated(b.configuration, b.genomes[id_c], b.genomes[id_a]))
            => SpeciesOf(b, id_c) \cap SpeciesOf(b, id_a) = {}

\* C20: after speciate the species map is a partition of the current
\* generation with ids 0..k-1, every member is related to the first member
\* of its species, a species is made only for a genome unrelated to the
\* first member of every species there is, identical genomes share one
\* species and a genome farther from them than the threshold is in another,
\* whatever the order of the visits.
C20_SpeciesPartition ==
    Speciated =>
        /\ SpeciesPartition(genome_bank)
        /\ SpeciesIdsDense(genome_bank)
        /\ MembersRelatedToFirst(genome_bank)
        /\ FirstsUnrelated(genome_bank)
        /\ IdenticalShare(genome_bank)
        /\ DistantApart(genome_bank)

\* the parts of C20 that come from the loop itself
SpeciateLoopRight ==
    Speciated =>
        /\ SpeciesPartition(genome_bank)
        /\ SpeciesIdsDense(genome_bank)
        /\ MembersRelatedToFirst(genome_bank)
        /\ FirstsUnrelated(genome_bank)

\* speciate has put two identical genomes into different species
IdenticalSplit ==
    /\ Speciated
    /\ \E id_a \in DOMAIN genome_bank.genomes : \E id_b \in DOMAIN genome_bank.genomes :
          /\ genome_bank.genomes[id_a] = genome_bank.genomes[id_b]
          /\ SpeciesOf(genome_bank, id_a) # SpeciesOf(genome_bank, id_b)

(***************************************************************************)
(* Properties of are_genomes_related (SpecBank).  The compatibility        *)
(* distance is a quotient; it is compared with the threshold after         *)
(* multiplying both sides by the divisor.                                  *)
(***************************************************************************)
\* the innovation numbers of the connection genes of gn
InnovationsOf(gn) ==
    {gn.connections[k].innovation_number : k \in 1..Len(gn.connections)}

\* D: the connection innovations present in one genome only
UnmatchedCount(a, b) ==
    Cardinality((InnovationsOf(a) \ InnovationsOf(b))
                    \cup (InnovationsOf(b) \ InnovationsOf(a)))

\* the matching innovations, in ascending order
MatchingInnovations(a, b) == SetToAscSeq(InnovationsOf(a) \cap InnovationsOf(b))

\* W: the summed absolute weight difference over the matching connections
WeightDifference(a, b) ==
    LET matching == MatchingInnovations(a, b)
    IN SumOf([k \in 1..Len(matching) |->
                 Abs(FindInnovation(a, matching[k]).weight
                       - FindInnovation(b, matching[k]).weight)],
             Len(matching))

\* M: the matching pairs whose disabled flags differ
FlippedCount(a, b) ==
    Cardinality({n \in InnovationsOf(a) \cap InnovationsOf(b) :
                    FindInnovation(a, n).disabled # FindInnovation(b, n).disabled})

\* N: max(|A_conn|, |B_conn|), or 1 if that is 0
Divisor(a, b) ==
    IF Len(a.connections) = 0 /\ Len(b.connections) = 0 THEN 1
    ELSE UsizeMax(Len(a.connections), Len(b.connections))

\* the node term of the distance, over the aligned node positions
NodeTerm(config, a, b) ==
    LET aligned == 1..(IF Len(a.nodes) <= Len(b.nodes) THEN Len(a.nodes) ELSE Len(b.nodes))
        bias == [k \in aligned |-> Abs(a.nodes[k].bias - b.nodes[k].bias)]
    IN config.distance_node_bias_coefficient * SumOf(bias, Cardinality(aligned))
       + config.distance_node_activation_coefficient
           * Cardinality({k \in aligned : a.nodes[k].activation # b.nodes[k].activation})
       + config.distance_node_aggregation_coefficient
           * Cardinality({k \in aligned : a.nodes[k].aggregation # b.nodes[k].aggregation})

\* the compatibility distance of a and b is at most the threshold
DistanceWithinThreshold(config, a, b) ==
    config.distance_connection_disjoint_coefficient * UnmatchedCount(a, b)
      + config.distance_connection_weight_coeficcient * WeightDifference(a, b)
      + config.distance_connection_disabled_coefficient * FlippedCount(a, b)
      + NodeTerm(config, a, b) * Divisor(a, b)
    <= config.compatibility_threshold * Divisor(a, b)

\* are_genomes_related agrees with the distance on the genomes a and b
RelatedIffWithin(config, a, b) ==
    /\ AreGenomesRelated(config, a, b) <=> DistanceWithinThreshold(config, a, b)
    /\ a = b => AreGenomesRelated(config, a, b)

\* C21: are_genomes_related(a, b) is true exactly when the compatibility
\* distance is at most compatibility_threshold, the divisor being 1 for two
\* genomes without connection genes; a genome is related to an identical
\* copy for every threshold.
C21_RelatedIffDistance ==
    \A id_a \in DOMAIN genome_bank.genomes : \A id_b \in DOMAIN genome_bank.genomes :
        RelatedIffWithin(genome_bank.configuration,
                         genome_bank.genomes[id_a], genome_bank.genomes[id_b])

\* C21 holds for the pairs of which one genome has a connection gene
RelatedIffDistanceConnected ==
    \A id_a \in DOMAIN genome_bank.genomes : \A id_b \in DOMAIN genome_bank.genomes :
        LET a == genome_bank.genomes[id_a]
            b == genome_bank.genomes[id_b]
        IN (Len(a.connections) > 0 \/ Len(b.connections) > 0)
              => RelatedIffWithin(genome_bank.configuration, a, b)

\* pairs of every sort are in the bank: the same weight, weights one apart
\* and two apart, and one genome without a connection gene
RelatedPairsCovered ==
    \E id_a, id_b, id_c, id_d \in DOMAIN genome_bank.genomes :
        /\ id_a # id_b
        /\ genome_bank.genomes[id_a] = WeightedGenome(0)
        /\ genome_bank.genomes[id_b] = WeightedGenome(2)
        /\ genome_bank.genomes[id_c] = BareGenome
        /\ genome_bank.configuration.compatibility_threshold = 1

(***************************************************************************)
(* The order of the driver's steps (SpecDriver).                           *)
(***************************************************************************)
\* the step from the head of a generation to its refill loop: evaluate,
\* speciate, select
SelectStep == neat.pc = "generation" /\ neat'.pc = "refill"

\* after the step the fitness map has an entry for exactly the current genomes
FitnessesOfPopulation == DOMAIN neat'.fitnesses = DOMAIN neat'.genomes

\* C22: in a generation the steps run in the order evaluate, speciate,
\* select, reproduce, replace, re-evaluate, report, goal check, and the next
\* generation starts only after them; when the hooks run and the goal is
\* checked the fitness map has an entry for exactly the ids of the current
\* population.
C22_GenerationOrder ==
    [][/\ SelectStep => FitnessesOfPopulation
       /\ ReplaceStep =>
             /\ FitnessesOfPopulation
             /\ neat'.previous_genomes = neat.genomes
             /\ neat.ranking # <<>> \/ neat.genomes = NoGenomes
       /\ neat'.i > neat.i =>
             \/ neat.pc = "new"
             \/ ReplaceStep /\ neat'.i = neat.i + 1 /\ neat'.pc = "generation"
       /\ (neat.pc = "generation" /\ neat'.pc # "generation") => SelectStep
       /\ (neat.pc = "refill" /\ neat'.pc = "refill") =>
             (neat'.genomes = neat.genomes /\ neat'.fitnesses = neat.fitnesses)]_vars

\* C22 witness: the hooks ran for a generation that dropped a genome of the
\* generation before and brought in a new one, and a next generation started.
C22_Witness ==
    /\ neat.pc = "generation"
    /\ neat.i = 2
    /\ DOMAIN neat.previous_genomes \ DOMAIN neat.genomes # {}
    /\ DOMAIN neat.genomes \ DOMAIN neat.previous_genomes # {}
    /\ DOMAIN neat.genomes \cap DOMAIN neat.previous_genomes # {}
    /\ DOMAIN neat.fitnesses = DOMAIN neat.genomes

(***************************************************************************)
(* The index add_connection returns (Spec).                                *)
(***************************************************************************)
\* add_connection has just returned Ok
AddedOk == res.op = "add_connection" /\ res.ok

\* the gene at the returned index is the enabled gene from -> to
IndexNamesGene ==
    /\ res.index < Len(g.connection_genes)
    /\ g.connection_genes[res.index + 1].from = res.from
    /\ g.connection_genes[res.index + 1].to = res.to
    /\ ~g.connection_genes[res.index + 1].disabled

\* C23: when add_connection(from, to) returns Ok(k), the gene at index k of
\* the connection list is the enabled gene from -> to, whether it was
\* appended or an existing disabled gene was enabled again.
C23_ReturnedIndex == AddedOk => IndexNamesGene

\* the returned index is the last one, and the gene from -> to is enabled
ReturnedIndexIsLast ==
    AddedOk =>
        /\ res.index = Len(g.connection_genes) - 1
        /\ FindConnection(g, res.from, res.to) # 0
        /\ ~g.connection_genes[FindConnection(g, res.from, res.to)].disabled

\* the returned index is right when the gene from -> to is the last gene
ReturnedIndexRightWhenLast ==
    (AddedOk /\ FindConnection(g, res.from, res.to) = Len(g.connection_genes))
        => IndexNamesGene

====
